---- MODULE Spec2Model ----
(***************************************************************************)
(* Model of the Perceive-Reason-Act pipeline of agentic_agent.py           *)
(* (VoiceAgent, AgenticTextAssistant).                                     *)
(*                                                                         *)
(* Texts are TLA+ strings, handled character by character with Len,        *)
(* SubSeq and \o, so that lower(), "kw in text", str.split() and the four  *)
(* regular expressions of _extract_entities are computed as Python         *)
(* computes them.  Confidences are IEEE-754 doubles, held exactly as       *)
(* integer multiples of 2^-57 in two limbs.                                *)
(*                                                                         *)
(* Of app.py the module models parse_command with the Run and Analyze      *)
(* handlers, and the add-to-calendar handler of inbox_today_list.          *)
(***************************************************************************)
EXTENDS Integers, Sequences, FiniteSets, TLC

VARIABLES memory, interaction_count, call, results, log, clock,
          user_cmd, history, parsed, panel, calendar

\* the assistant of agentic_agent.py and the session state of app.py
assistant == <<memory, interaction_count, call, results, log, clock>>
app == <<user_cmd, history, parsed, panel, calendar>>

vars == <<memory, interaction_count, call, results, log, clock,
          user_cmd, history, parsed, panel, calendar>>

(***************************************************************************)
(* Bounds of the model.                                                    *)
(***************************************************************************)
MaxCalls == 3
MaxFrags == 2
MaxClock == 1
MaxHistory == 2
MaxEvents == 3
MaxTime == 3

(***************************************************************************)
(* Characters and strings.                                                 *)
(***************************************************************************)
Ch(s, i) == SubSeq(s, i, i)

UpperLetters == "ABCDEFGHIJKLMNOPQRSTUVWXYZ"
LowerLetters == "abcdefghijklmnopqrstuvwxyz"
DigitChars == "0123456789"

CharSet(s) == {Ch(s, i) : i \in 1..Len(s)}

Upper == CharSet(UpperLetters)
Letters == CharSet(UpperLetters) \cup CharSet(LowerLetters)
Digits == CharSet(DigitChars)
Whitespace == {" ", "\t", "\n"}
WordChars == Letters \cup Digits \cup {"_"}

\* str.lower() on one character
LowerChar(c) ==
    IF c \in Upper
    THEN Ch(LowerLetters, CHOOSE i \in 1..26 : Ch(UpperLetters, i) = c)
    ELSE c

RECURSIVE Lower(_)
\* str.lower()
Lower(s) ==
    IF s = "" THEN ""
    ELSE LowerChar(Ch(s, 1)) \o Lower(SubSeq(s, 2, Len(s)))

\* Python's  kw in s  for strings
Contains(s, kw) ==
    \E i \in 1..(Len(s) - Len(kw) + 1) : SubSeq(s, i, i + Len(kw) - 1) = kw

\* s.startswith(p)
StartsWith(s, p) == Len(p) <= Len(s) /\ SubSeq(s, 1, Len(p)) = p

\* len(s.split()): the number of maximal runs of non-whitespace characters
SplitCount(s) ==
    Cardinality({i \in 1..Len(s) :
        /\ Ch(s, i) \notin Whitespace
        /\ (i = 1 \/ Ch(s, i - 1) \in Whitespace)})

(***************************************************************************)
(* PERCEIVE: intent classification.                                        *)
(***************************************************************************)
\* the dict of _extract_intent, in insertion (= iteration) order
intent_patterns == <<
    [intent |-> "create",    keywords |-> <<"create", "make", "generate", "write">>],
    [intent |-> "search",    keywords |-> <<"search", "find", "look for", "show me">>],
    [intent |-> "analyze",   keywords |-> <<"analyze", "explain", "understand", "what is">>],
    [intent |-> "calculate", keywords |-> <<"calculate", "compute", "how much", "sum">>],
    [intent |-> "schedule",  keywords |-> <<"schedule", "plan", "set reminder", "meeting">>],
    [intent |-> "translate", keywords |-> <<"translate", "say in", "convert to">>],
    [intent |-> "summarize", keywords |-> <<"summarize", "brief", "tldr", "overview">>] >>

\* any(kw in text_lower for kw in keywords)
AnyKeyword(text_lower, keywords) ==
    \E k \in 1..Len(keywords) : Contains(text_lower, keywords[k])

RECURSIVE IntentLoop(_, _)
\* the for loop of _extract_intent, from table entry i on
IntentLoop(text_lower, i) ==
    IF i > Len(intent_patterns) THEN "conversation"
    ELSE IF AnyKeyword(text_lower, intent_patterns[i].keywords)
         THEN intent_patterns[i].intent
         ELSE IntentLoop(text_lower, i + 1)

\* variant: the keywords are matched against the text as given
_extract_intent_CaseSensitive(text) == IntentLoop(text, 1)

_extract_intent(text) == IntentLoop(Lower(text), 1)

(***************************************************************************)
(* PERCEIVE: sentiment.                                                    *)
(***************************************************************************)
positive == <<"good", "great", "excellent", "happy", "love", "thank">>
negative == <<"bad", "terrible", "sad", "hate", "angry", "problem">>

\* the number of places of s where w occurs
Occurrences(s, w) ==
    Cardinality({i \in 1..(Len(s) - Len(w) + 1) : SubSeq(s, i, i + Len(w) - 1) = w})

RECURSIVE TotalOccurrences(_, _, _)
\* the occurrences in s of the words i.. of the list
TotalOccurrences(words, s, i) ==
    IF i > Len(words) THEN 0
    ELSE Occurrences(s, words[i]) + TotalOccurrences(words, s, i + 1)

\* variant: sum(text_lower.count(word) for word in words)
WordCount_Occurrences(words, text_lower) == TotalOccurrences(words, text_lower, 1)

\* sum(1 for word in words if word in text_lower)
WordCount(words, text_lower) ==
    Cardinality({i \in 1..Len(words) : Contains(text_lower, words[i])})

\* variant: a tie counts as positive
_analyze_sentiment_TieIsPositive(text) ==
    LET text_lower == Lower(text)
        pos_count == WordCount(positive, text_lower)
        neg_count == WordCount(negative, text_lower)
    IN  IF pos_count >= neg_count THEN "positive"
        ELSE IF neg_count > pos_count THEN "negative"
        ELSE "neutral"

_analyze_sentiment(text) ==
    LET text_lower == Lower(text)
        pos_count == WordCount(positive, text_lower)
        neg_count == WordCount(negative, text_lower)
    IN  IF pos_count > neg_count THEN "positive"
        ELSE IF neg_count > pos_count THEN "negative"
        ELSE "neutral"

(***************************************************************************)
(* PERCEIVE: entities.  A pattern is a sequence of items; Match is the     *)
(* backtracking matcher of Python's re for these items (greedy counted     *)
(* character classes, \b, and an optional group of literal alternatives), *)
(* FindAll is re.findall for a pattern without capturing groups.           *)
(***************************************************************************)
\* the quantifiers + and {2,}: no upper limit (RunLength never counts down to 0)
Unbounded == -1

Cls(set, min, max) == [t |-> "cls", set |-> set, min |-> min, max |-> max, alts |-> <<>>]
Lit(c) == Cls({c}, 1, 1)
WordBoundary == [t |-> "b", set |-> {}, min |-> 0, max |-> 0, alts |-> <<>>]
Opt(alts) == [t |-> "opt", set |-> {}, min |-> 0, max |-> 0, alts |-> alts]

\* r"\d+"
NumbersRe == << Cls(Digits, 1, Unbounded) >>

\* r"\b\d{1,2}/\d{1,2}/\d{2,4}\b"
DatesRe == << WordBoundary, Cls(Digits, 1, 2), Lit("/"), Cls(Digits, 1, 2),
              Lit("/"), Cls(Digits, 2, 4), WordBoundary >>

\* r"\b\d{1,2}:\d{2}\s*(?:am|pm)?\b"
TimesRe == << WordBoundary, Cls(Digits, 1, 2), Lit(":"), Cls(Digits, 2, 2),
              Cls(Whitespace, 0, Unbounded), Opt(<<"am", "pm">>), WordBoundary >>

\* r"\b[A-Za-z0-9._%+-]+@[A-Za-z0-9.-]+\.[A-Z|a-z]{2,}\b"
EmailsRe == << WordBoundary,
               Cls(Letters \cup Digits \cup {".", "_", "%", "+", "-"}, 1, Unbounded),
               Lit("@"),
               Cls(Letters \cup Digits \cup {".", "-"}, 1, Unbounded),
               Lit("."),
               Cls(Letters \cup {"|"}, 2, Unbounded),
               WordBoundary >>

\* \b at position pos: between the characters pos-1 and pos
AtWordBoundary(s, pos) ==
    LET before == pos > 1 /\ Ch(s, pos - 1) \in WordChars
        after == pos <= Len(s) /\ Ch(s, pos) \in WordChars
    IN  before # after

RECURSIVE RunLength(_, _, _, _)
\* the number of characters of set from pos on, at most max
RunLength(s, pos, set, max) ==
    IF max = 0 \/ pos > Len(s) \/ Ch(s, pos) \notin set THEN 0
    ELSE 1 + RunLength(s, pos + 1, set, max - 1)

RECURSIVE Match(_, _, _, _)
RECURSIVE MatchCount(_, _, _, _, _)
RECURSIVE MatchAlts(_, _, _, _, _)

\* items k.. of re matched at pos: the position after the match, 0 if none
Match(re, k, s, pos) ==
    IF k > Len(re) THEN pos
    ELSE LET it == re[k] IN
         IF it.t = "b"
         THEN IF AtWordBoundary(s, pos) THEN Match(re, k + 1, s, pos) ELSE 0
         ELSE IF it.t = "opt"
         THEN MatchAlts(re, k, s, pos, 1)
         ELSE MatchCount(re, k, s, pos, RunLength(s, pos, it.set, it.max))

\* greedy repetition: item k takes n characters, then n-1, ... down to min
MatchCount(re, k, s, pos, n) ==
    IF n < re[k].min THEN 0
    ELSE LET e == Match(re, k + 1, s, pos + n) IN
         IF e # 0 THEN e ELSE MatchCount(re, k, s, pos, n - 1)

\* (?:a1|a2|...)? : the alternatives in order, then the empty match
MatchAlts(re, k, s, pos, a) ==
    IF a > Len(re[k].alts) THEN Match(re, k + 1, s, pos)
    ELSE LET lit == re[k].alts[a]
             e == IF /\ pos + Len(lit) - 1 <= Len(s)
                     /\ SubSeq(s, pos, pos + Len(lit) - 1) = lit
                  THEN Match(re, k + 1, s, pos + Len(lit)) ELSE 0
         IN  IF e # 0 THEN e ELSE MatchAlts(re, k, s, pos, a + 1)

RECURSIVE FindAllFrom(_, _, _)
FindAllFrom(re, s, start) ==
    IF start > Len(s) THEN <<>>
    ELSE LET e == Match(re, 1, s, start) IN
         IF e # 0
         THEN <<SubSeq(s, start, e - 1)>> \o FindAllFrom(re, s, e)
         ELSE FindAllFrom(re, s, start + 1)

\* re.findall(re, s)
FindAll(re, s) == FindAllFrom(re, s, 1)

\* variant: the times pattern is applied to the text as given
AllEntities_TimesCaseSensitive(text) ==
    [numbers |-> FindAll(NumbersRe, text),
     dates   |-> FindAll(DatesRe, text),
     times   |-> FindAll(TimesRe, text),
     emails  |-> FindAll(EmailsRe, text)]

\* the dict built by _extract_entities before the filter
AllEntities(text) ==
    [numbers |-> FindAll(NumbersRe, text),
     dates   |-> FindAll(DatesRe, text),
     times   |-> FindAll(TimesRe, Lower(text)),
     emails  |-> FindAll(EmailsRe, text)]

\* variant: every category is kept
NonEmptyItems_Unfiltered(entities) == [k \in DOMAIN entities |-> entities[k]]

\* {k: v for k, v in entities.items() if v}
NonEmptyItems(entities) ==
    [k \in {k \in DOMAIN entities : entities[k] # <<>>} |-> entities[k]]

_extract_entities(text) == NonEmptyItems(AllEntities(text))

\* datetime.now(): a reading of the clock, never before the last reading
Now == clock..MaxClock

\* variant: the sentiment is analysed at the first clock reading only
Perception_SentimentByClock(text, ts) ==
    [text      |-> text,
     intent    |-> _extract_intent(text),
     entities  |-> _extract_entities(text),
     sentiment |-> IF ts = 0 THEN _analyze_sentiment(text) ELSE "neutral",
     timestamp |-> ts]

\* the perception dict built by perceive, with the clock reading ts
Perception(text, ts) ==
    [text      |-> text,
     intent    |-> _extract_intent(text),
     entities  |-> _extract_entities(text),
     sentiment |-> _analyze_sentiment(text),
     timestamp |-> ts]

(***************************************************************************)
(* Python floats: an IEEE-754 double d is held exactly as the pair         *)
(* <<hi, lo>> with d = (hi * 2^29 + lo) * 2^-57 and 0 <= lo < 2^29.        *)
(***************************************************************************)
Limb == 2^29

F_0_7  == <<187904819, 107374176>>  \* 0.7  = 0x1.6666666666666p-1
F_0_15 == <<40265318, 214748364>>   \* 0.15 = 0x1.3333333333333p-3
F_0_1  == <<26843545, 322122548>>   \* 0.1  = 0x1.999999999999ap-4
F_0_05 == <<13421772, 429496730>>   \* 0.05 = 0x1.999999999999ap-5
F_0_8  == <<214748364, 429496736>>  \* 0.8  = 0x1.999999999999ap-1
F_1_0  == <<268435456, 0>>          \* 1.0

FLess(a, b) == a[1] < b[1] \/ (a[1] = b[1] /\ a[2] < b[2])
FLeq(a, b) == ~FLess(b, a)

\* the spacing of the doubles around a value with high limb hi, in units of
\* 2^-57: 2^(e+5) for a value in [2^e, 2^(e+1))
UlpOf(hi) ==
    CHOOSE u \in {1, 2, 4, 8, 16, 32, 64} : u * 2^23 <= hi /\ hi < u * 2^24

\* round to nearest double, ties to even
FRound(v) ==
    LET u == UlpOf(v[1])
        q == v[2] \div u
        r == v[2] % u
        up == 2 * r > u \/ (2 * r = u /\ q % 2 = 1)
        lo == (IF up THEN q + 1 ELSE q) * u
    IN  <<v[1] + (lo \div Limb), lo % Limb>>

\* a + b on doubles: the exact sum, rounded
FAdd(a, b) ==
    LET lo == a[2] + b[2]
    IN  FRound(<<a[1] + b[1] + (lo \div Limb), lo % Limb>>)

\* min(a, b)
FMin(a, b) == IF FLess(b, a) THEN b ELSE a

(***************************************************************************)
(* REASON.                                                                 *)
(***************************************************************************)
_identify_goal(intent) ==
    CASE intent = "create"    -> "Generate new content"
      [] intent = "search"    -> "Retrieve information"
      [] intent = "analyze"   -> "Understand and explain"
      [] intent = "calculate" -> "Perform computation"
      [] intent = "schedule"  -> "Organize time-based tasks"
      [] intent = "translate" -> "Convert between languages"
      [] intent = "summarize" -> "Condense information"
      [] OTHER                -> "Assist user"

\* variant: the entry of schedule is missing
_check_prerequisites_NoSchedule(intent) ==
    CASE intent = "search"    -> <<"internet access", "search tool">>
      [] intent = "calculate" -> <<"math processor">>
      [] intent = "translate" -> <<"translation model">>
      [] OTHER                -> <<"language understanding">>

_check_prerequisites(intent) ==
    CASE intent = "search"    -> <<"internet access", "search tool">>
      [] intent = "calculate" -> <<"math processor">>
      [] intent = "translate" -> <<"translation model">>
      [] intent = "schedule"  -> <<"calendar access">>
      [] OTHER                -> <<"language understanding">>

default_plan ==
    [steps |-> <<"understand_query", "process_information", "formulate_response">>,
     estimated_time |-> "3s"]

_create_plan(intent, entities) ==
    CASE intent = "create" ->
            [steps |-> <<"understand_requirements", "generate_content", "validate_output">>,
             estimated_time |-> "10s"]
      [] intent = "analyze" ->
            [steps |-> <<"parse_input", "analyze_components", "synthesize_explanation">>,
             estimated_time |-> "5s"]
      [] intent = "calculate" ->
            [steps |-> <<"extract_numbers", "determine_operation", "compute_result">>,
             estimated_time |-> "2s"]
      [] OTHER -> default_plan

\* variant: the entity bonus is 0.1 and the sentiment bonus 0.15
_calculate_confidence_Swapped(perception) ==
    LET base0 == F_0_7
        base1 == IF DOMAIN perception.entities # {} THEN FAdd(base0, F_0_1) ELSE base0
        base2 == IF perception.sentiment # "neutral" THEN FAdd(base1, F_0_15) ELSE base1
        base3 == IF SplitCount(perception.text) > 5 THEN FAdd(base2, F_0_05) ELSE base2
    IN  FMin(base3, F_1_0)

\* variant: the bonus for more than 5 tokens is 0.5
_calculate_confidence_BigTokenBonus(perception) ==
    LET base0 == F_0_7
        base1 == IF DOMAIN perception.entities # {} THEN FAdd(base0, F_0_15) ELSE base0
        base2 == IF perception.sentiment # "neutral" THEN FAdd(base1, F_0_1) ELSE base1
        base3 == IF SplitCount(perception.text) > 5 THEN FAdd(base2, <<2^27, 0>>) ELSE base2
    IN  FMin(base3, F_1_0)

_calculate_confidence(perception) ==
    LET base0 == F_0_7
        base1 == IF DOMAIN perception.entities # {} THEN FAdd(base0, F_0_15) ELSE base0
        base2 == IF perception.sentiment # "neutral" THEN FAdd(base1, F_0_1) ELSE base1
        base3 == IF SplitCount(perception.text) > 5 THEN FAdd(base2, F_0_05) ELSE base2
    IN  FMin(base3, F_1_0)

reason(perception) ==
    [goal          |-> _identify_goal(perception.intent),
     prerequisites |-> _check_prerequisites(perception.intent),
     plan          |-> _create_plan(perception.intent, perception.entities),
     confidence    |-> _calculate_confidence(perception)]

(***************************************************************************)
(* ACT.                                                                    *)
(***************************************************************************)
_execute_step(step) ==
    [step |-> step, status |-> "completed", output |-> "Executed " \o step]

ContinuityPhrase == "Based on our conversation so far, "

\* variant: the phrase needs more than two stored perceptions
_generate_response_LongerMemory(step_results, reasoning, mem) ==
    LET goal == reasoning.goal
        conf == reasoning.confidence
        prefix == IF FLess(F_0_8, conf)
                  THEN "I understand you want to"
                  ELSE "I think you're asking me to"
        response0 == prefix \o " " \o Lower(goal) \o ". "
        response1 == IF Len(mem) > 2 THEN response0 \o ContinuityPhrase ELSE response0
    IN  response1 \o "I've analyzed your request and completed "
                  \o ToString(Len(step_results)) \o " reasoning steps."

\* variant: the phrase needs one stored perception
_generate_response_AnyMemory(step_results, reasoning, mem) ==
    LET goal == reasoning.goal
        conf == reasoning.confidence
        prefix == IF FLess(F_0_8, conf)
                  THEN "I understand you want to"
                  ELSE "I think you're asking me to"
        response0 == prefix \o " " \o Lower(goal) \o ". "
        response1 == IF Len(mem) > 0 THEN response0 \o ContinuityPhrase ELSE response0
    IN  response1 \o "I've analyzed your request and completed "
                  \o ToString(Len(step_results)) \o " reasoning steps."

\* variant: the confident prefix is chosen above 0.7
_generate_response_LowThreshold(step_results, reasoning, mem) ==
    LET goal == reasoning.goal
        conf == reasoning.confidence
        prefix == IF FLess(F_0_7, conf)
                  THEN "I understand you want to"
                  ELSE "I think you're asking me to"
        response0 == prefix \o " " \o Lower(goal) \o ". "
        response1 == IF Len(mem) > 1 THEN response0 \o ContinuityPhrase ELSE response0
    IN  response1 \o "I've analyzed your request and completed "
                  \o ToString(Len(step_results)) \o " reasoning steps."

_generate_response(step_results, reasoning, mem) ==
    LET goal == reasoning.goal
        conf == reasoning.confidence
        prefix == IF FLess(F_0_8, conf)
                  THEN "I understand you want to"
                  ELSE "I think you're asking me to"
        response0 == prefix \o " " \o Lower(goal) \o ". "
        response1 == IF Len(mem) > 1 THEN response0 \o ContinuityPhrase ELSE response0
    IN  response1 \o "I've analyzed your request and completed "
                  \o ToString(Len(step_results)) \o " reasoning steps."

\* variant: each iteration replaces the list, results = [self._execute_step(step)]
StepResults_LastOnly(steps) ==
    IF steps = <<>> THEN <<>> ELSE <<_execute_step(steps[Len(steps)])>>

\* the loop of act over plan["steps"]
StepResults(steps) == [i \in 1..Len(steps) |-> _execute_step(steps[i])]

act(reasoning, mem) ==
    _generate_response(StepResults(reasoning.plan.steps), reasoning, mem)

(***************************************************************************)
(* Input texts.                                                            *)
(***************************************************************************)
Range(f) == {f[i] : i \in DOMAIN f}

\* pieces of text: keywords of every intent (one shadowed, two capitalised),
\* sentiment words, one instance of each entity pattern, separators, fillers
Fragments == <<
    "create ", "Find ", "explain", "sum", "summarize", "Meeting ", "say in ", "brief",
    "good ", "GREAT", "thankful ", "bad ", "sad",
    "42", "3:30pm", "4/5/2025", "a@b.com",
    " ", "hi", "one two three four five six " >>

RECURSIVE FragTexts(_)
\* the concatenations of at most n fragments
FragTexts(n) ==
    IF n = 0 THEN {""}
    ELSE LET shorter == FragTexts(n - 1)
         IN  shorter \cup {t \o f : t \in shorter, f \in Range(Fragments)}

\* every keyword of the intent table, as a text of its own
KeywordTexts ==
    UNION {Range(intent_patterns[i].keywords) : i \in 1..Len(intent_patterns)}

\* texts with one time, one date, one number and one email address, each
\* set off by spaces or commas
RoundTripTime == {"3:30pm", "9:15 AM", "12:05"}
RoundTripDate == {"4/5/2025", "12/31/99"}
RoundTripNumber == {"42", "7"}
RoundTripEmail == {"a@b.com", "X.y-z@mail.example.org"}

RoundTripA(t, d, n, e) ==
    "Call me at " \o t \o " on " \o d \o ", " \o n \o " times, email me at " \o e

RoundTripB(t, d, n, e) ==
    "mail " \o e \o " " \o n \o " days before " \o d \o " " \o t

RoundTripTexts ==
    {RoundTripA(t, d, n, e) : t \in RoundTripTime, d \in RoundTripDate,
                              n \in RoundTripNumber, e \in RoundTripEmail}
    \cup
    {RoundTripB(t, d, n, e) : t \in RoundTripTime, d \in RoundTripDate,
                              n \in RoundTripNumber, e \in RoundTripEmail}

\* the examples of the specification and of the claims
ExampleTexts ==
    {"Can you create a report and email me at x@y.com by 5:00pm?",
     "hi",
     "good good bad",
     "good bad",
     "bad sad good good",
     "I love it, thank you, what a happy day 42",
     "Please SUMMARIZE\tthis\nlong text for me now"}

AllTexts == FragTexts(MaxFrags) \cup KeywordTexts \cup RoundTripTexts \cup ExampleTexts

\* the texts of a session of several calls
SessionTexts ==
    {"hi", "good", "sum 42", "summarize",
     "Can you create a report and email me at x@y.com by 5:00pm?"}

(***************************************************************************)
(* app.py: parse_command.  re.match with groups: a match is the function   *)
(* from group number to <<start, end>> (end exclusive), <<0, 0>> for a     *)
(* group that took no part.                                                *)
(***************************************************************************)
\* str.upper() on one character
UpperChar(c) ==
    IF c \in CharSet(LowerLetters)
    THEN Ch(UpperLetters, CHOOSE i \in 1..26 : Ch(LowerLetters, i) = c)
    ELSE c

RECURSIVE ToUpper(_)
\* str.upper()
ToUpper(s) ==
    IF s = "" THEN ""
    ELSE UpperChar(Ch(s, 1)) \o ToUpper(SubSeq(s, 2, Len(s)))

RECURSIVE LStrip(_)
LStrip(s) ==
    IF s # "" /\ Ch(s, 1) \in Whitespace THEN LStrip(SubSeq(s, 2, Len(s))) ELSE s

RECURSIVE RStrip(_)
RStrip(s) ==
    IF s # "" /\ Ch(s, Len(s)) \in Whitespace THEN RStrip(SubSeq(s, 1, Len(s) - 1)) ELSE s

\* str.strip()
Strip(s) == RStrip(LStrip(s))

\* a or b  for strings (None is held as "")
Or(a, b) == IF a # "" THEN a ELSE b

Open(g) == [t |-> "open", g |-> g]
Close(g) == [t |-> "close", g |-> g]
OptSeq(body) == [t |-> "optseq", body |-> body]
EndOfText == [t |-> "end"]

\* re.IGNORECASE on a set of characters
IgnoreCase(set) == set \cup {LowerChar(c) : c \in set} \cup {UpperChar(c) : c \in set}
LitIgnoreCase(c) == Cls(IgnoreCase({c}), 1, 1)

PeriodUnits == {"d", "w", "m", "y"}

\* r"lookup\s+([A-Za-z\.\-]+)(?:\s+(\d+[dwmy]))?$" with re.IGNORECASE
LookupRe ==
    << LitIgnoreCase("l"), LitIgnoreCase("o"), LitIgnoreCase("o"),
       LitIgnoreCase("k"), LitIgnoreCase("u"), LitIgnoreCase("p"),
       Cls(Whitespace, 1, Unbounded),
       Open(1), Cls(IgnoreCase(Letters \cup {".", "-"}), 1, Unbounded), Close(1),
       OptSeq(<< Cls(Whitespace, 1, Unbounded),
                 Open(2), Cls(Digits, 1, Unbounded), Cls(IgnoreCase(PeriodUnits), 1, 1),
                 Close(2) >>),
       EndOfText >>

NoGroup == <<0, 0>>

\* $ at position pos: the end of the text, or just before a final newline
AtEndOfText(s, pos) == pos = Len(s) + 1 \/ (pos = Len(s) /\ Ch(s, pos) = "\n")

RECURSIVE MatchGroups(_, _, _, _)
RECURSIVE RepeatGroups(_, _, _, _, _)

\* the items re matched at pos: <<groups>> for the first match in
\* backtracking order, <<>> if there is none
MatchGroups(re, s, pos, groups) ==
    IF Len(re) = 0 THEN <<groups>>
    ELSE LET it == Head(re)
             rest == Tail(re)
         IN  CASE it.t = "end" ->
                    IF AtEndOfText(s, pos) THEN MatchGroups(rest, s, pos, groups) ELSE <<>>
               [] it.t = "open" ->
                    MatchGroups(rest, s, pos, [groups EXCEPT ![it.g] = <<pos, 0>>])
               [] it.t = "close" ->
                    MatchGroups(rest, s, pos, [groups EXCEPT ![it.g] = <<@[1], pos>>])
               [] it.t = "optseq" ->
                    LET m == MatchGroups(it.body \o rest, s, pos, groups)
                    IN  IF m # <<>> THEN m ELSE MatchGroups(rest, s, pos, groups)
               [] it.t = "cls" ->
                    RepeatGroups(re, s, pos, groups, RunLength(s, pos, it.set, it.max))

\* greedy repetition: the first item takes n characters, then n-1, ... down to min
RepeatGroups(re, s, pos, groups, n) ==
    IF n < Head(re).min THEN <<>>
    ELSE LET m == MatchGroups(Tail(re), s, pos + n, groups)
         IN  IF m # <<>> THEN m ELSE RepeatGroups(re, s, pos, groups, n - 1)

\* re.match(re, s): <<groups>> or <<>> (None)
ReMatch(re, s) == MatchGroups(re, s, 1, [g \in 1..2 |-> NoGroup])

\* m.group(g), "" when the group took no part
Group(s, groups, g) ==
    IF groups[g] = NoGroup THEN "" ELSE SubSeq(s, groups[g][1], groups[g][2] - 1)

\* parse_command(cmd)
parse_command(cmd0) ==
    LET cmd == Strip(cmd0)
        m == IF StartsWith(Lower(cmd), "lookup") THEN ReMatch(LookupRe, cmd) ELSE <<>>
    IN  IF cmd = "" THEN [type |-> "empty"]
        ELSE IF m # <<>>
        THEN [type   |-> "stock_lookup",
              ticker |-> ToUpper(Group(cmd, m[1], 1)),
              period |-> Or(Group(cmd, m[1], 2), "3mo")]
        ELSE IF Contains(Lower(cmd), "email") /\ Contains(Lower(cmd), "today")
        THEN [type |-> "inbox_today"]
        ELSE IF StartsWith(Lower(cmd), "news")
        THEN [type |-> "news", topic |-> Or(Strip(SubSeq(cmd, 5, Len(cmd))), "markets")]
        ELSE [type |-> "unknown", text |-> cmd]

(***************************************************************************)
(* The assistant: agent.memory, interaction_count, and the process calls.  *)
(* call[c] is the frame of caller c's process call: its position pc and    *)
(* its locals (step_results is the list results of act).  results is the    *)
(* sequence of the bundles returned so far.  log records, for each         *)
(* returned call, what the bundle does not show: prior, the length of the  *)
(* store when the call began, stages, the stages the call ran, and the     *)
(* step results of act.                                                    *)
(***************************************************************************)
Callers == {1, 2}

NoPerception ==
    [text |-> "", intent |-> "", entities |-> <<>>, sentiment |-> "", timestamp |-> 0]

NoReasoning ==
    [goal |-> "", prerequisites |-> <<>>,
     plan |-> [steps |-> <<>>, estimated_time |-> ""], confidence |-> <<0, 0>>]

IdleCall ==
    [pc |-> "idle", text |-> "", perception |-> NoPerception,
     reasoning |-> NoReasoning, step_results |-> <<>>, response_text |-> "",
     prior |-> 0, stages |-> <<>>]

\* no command has been parsed in this run of the script
NoParse == [type |-> "none"]

Init ==
    /\ memory = <<>>
    /\ interaction_count = 0
    /\ call = [c \in Callers |-> IdleCall]
    /\ results = <<>>
    /\ log = <<>>
    /\ clock = 0
    /\ user_cmd = ""
    /\ history = <<>>
    /\ parsed = NoParse
    /\ panel = "market"
    /\ calendar = <<>>

\* the number of process calls begun so far
Begun == Len(memory) + Cardinality({c \in Callers : call[c].pc = "PERCEIVE"})

\* process(text) is called
Call(c, text) ==
    /\ call[c].pc = "idle"
    /\ Begun < MaxCalls
    /\ call' = [call EXCEPT ![c] = [IdleCall EXCEPT !.pc = "PERCEIVE", !.text = text,
                                                    !.prior = Len(memory)]]
    /\ UNCHANGED <<memory, interaction_count, results, log, clock>>
    /\ UNCHANGED app

\* variant: the perception is put at the front of the store
Perceive_Prepend(c) ==
    /\ call[c].pc = "PERCEIVE"
    /\ \E ts \in Now :
          LET perception == Perception(call[c].text, ts) IN
          /\ memory' = <<perception>> \o memory
          /\ call' = [call EXCEPT ![c].perception = perception, ![c].pc = "REASON",
                                  ![c].stages = Append(@, "PERCEIVE")]
          /\ clock' = ts
    /\ UNCHANGED <<interaction_count, results, log>>
    /\ UNCHANGED app

\* perception = self.agent.perceive(text)
Perceive(c) ==
    /\ call[c].pc = "PERCEIVE"
    /\ \E ts \in Now :
          LET perception == Perception(call[c].text, ts) IN
          /\ memory' = Append(memory, perception)
          /\ call' = [call EXCEPT ![c].perception = perception, ![c].pc = "REASON",
                                  ![c].stages = Append(@, "PERCEIVE")]
          /\ clock' = ts
    /\ UNCHANGED <<interaction_count, results, log>>
    /\ UNCHANGED app

\* variant: reason is given the first perception of the store
Reason_FirstPerception(c) ==
    /\ call[c].pc = "REASON"
    /\ call' = [call EXCEPT ![c].reasoning = reason(memory[1]), ![c].pc = "ACT",
                            ![c].stages = Append(@, "REASON")]
    /\ UNCHANGED <<memory, interaction_count, results, log, clock>>
    /\ UNCHANGED app

\* reasoning = self.agent.reason(perception)
Reason(c) ==
    /\ call[c].pc = "REASON"
    /\ call' = [call EXCEPT ![c].reasoning = reason(call[c].perception), ![c].pc = "ACT",
                            ![c].stages = Append(@, "REASON")]
    /\ UNCHANGED <<memory, interaction_count, results, log, clock>>
    /\ UNCHANGED app

\* variant: act sees the store as it was when the call began, with the
\* call's own perception
Act_StoreAtCall(c) ==
    /\ call[c].pc = "ACT"
    /\ call' = [call EXCEPT ![c].step_results = StepResults(call[c].reasoning.plan.steps),
                            ![c].response_text =
                                act(call[c].reasoning, SubSeq(memory, 1, call[c].prior + 1)),
                            ![c].pc = "RETURN",
                            ![c].stages = Append(@, "ACT")]
    /\ UNCHANGED <<memory, interaction_count, results, log, clock>>
    /\ UNCHANGED app

\* response_text = self.agent.act(reasoning)
Act(c) ==
    /\ call[c].pc = "ACT"
    /\ call' = [call EXCEPT ![c].step_results = StepResults(call[c].reasoning.plan.steps),
                            ![c].response_text = act(call[c].reasoning, memory),
                            ![c].pc = "RETURN",
                            ![c].stages = Append(@, "ACT")]
    /\ UNCHANGED <<memory, interaction_count, results, log, clock>>
    /\ UNCHANGED app

\* self.interaction_count += 1 and the return of the bundle
Return(c) ==
    /\ call[c].pc = "RETURN"
    /\ interaction_count' = interaction_count + 1
    /\ results' = Append(results,
                         [input_text    |-> call[c].text,
                          perception    |-> call[c].perception,
                          reasoning     |-> call[c].reasoning,
                          response_text |-> call[c].response_text])
    /\ log' = Append(log, [prior        |-> call[c].prior,
                           stages       |-> call[c].stages,
                           step_results |-> call[c].step_results])
    /\ call' = [call EXCEPT ![c] = IdleCall]
    /\ UNCHANGED <<memory, clock>>
    /\ UNCHANGED app

\* no call of another caller is in progress
Serial(c) == \A d \in Callers \ {c} : call[d].pc = "idle"

\* A session: one caller, one call after the other.
Next ==
    \/ \E t \in SessionTexts : Serial(1) /\ Call(1, t)
    \/ Perceive(1)
    \/ Reason(1)
    \/ Act(1)
    \/ Return(1)

Spec == Init /\ [][Next]_vars

\* process is synchronous: a call that has begun runs on to its return.
RunCall(c) == Perceive(c) \/ Reason(c) \/ Act(c) \/ Return(c)

\* a call of c is in progress; the guard of each stage is its pc alone and
\* each stage moves pc, so this is ENABLED <<RunCall(c)>>_vars
Running(c) == call[c].pc # "idle"

\* WF_vars(RunCall(c)), with the enabling condition written out
Fair(c) == []<>(~Running(c)) \/ []<><<RunCall(c)>>_vars

\* the session under the fairness of a synchronous call: no stage waits
\* for ever, and neither does the return
SpecLive == Spec /\ Fair(1) /\ WF_vars(Return(1))

\* One call on a fresh assistant, for every text.
FirstCall(c, text) == memory = <<>> /\ results = <<>> /\ Call(c, text)

NextText ==
    \/ \E t \in AllTexts : FirstCall(1, t)
    \/ Perceive(1)
    \/ Reason(1)
    \/ Act(1)
    \/ Return(1)

SpecText == Init /\ [][NextText]_vars

\* the texts of the two concurrent callers
ConcTexts == {"hi", "sum 42"}

\* Two callers of one assistant, interleaved at stage granularity: the code
\* takes no lock, so a stage of one call may run between two stages of the
\* other.
NextConc ==
    \E c \in Callers :
        \/ \E t \in ConcTexts : Call(c, t)
        \/ Perceive(c)
        \/ Reason(c)
        \/ Act(c)
        \/ Return(c)

SpecConc == Init /\ [][NextConc]_vars

(***************************************************************************)
(* app.py: the Run button of the command bar and the Analyze button of     *)
(* the sidebar.  A history entry is held as its cmd; its field t, the      *)
(* wall-clock second, is left out.                                         *)
(***************************************************************************)
Tickers == {"TSLA", "aapl"}

\* the options of the sidebar's Period selectbox
Periods == {"1mo", "3mo", "6mo", "1y", "2y", "5y"}

\* what the user may type into the command bar
Commands ==
    {"lookup " \o t \o " " \o p : t \in Tickers, p \in Periods}
    \cup {"lookup " \o t : t \in Tickers}
    \cup {"", "  ", "lookup", " LOOKUP  brk.b 10D ", "lookup TSLA 6 mo", "lookup T5 1y",
          "email from today", "news", "news about energy", "hello"}

\* the panel chosen for a parsed command
PanelOf(p) == IF p.type = "inbox_today" THEN "inbox" ELSE "market"

\* Run is clicked with cmd in the command bar: record_history(user_cmd) and
\* the dispatch on parse_command(user_cmd), both under run_now and
\* user_cmd.strip()
Run(cmd) ==
    /\ Len(history) < MaxHistory
    /\ user_cmd' = cmd
    /\ IF Strip(cmd) # ""
       THEN /\ history' = Append(history, cmd)
            /\ parsed' = parse_command(cmd)
            /\ panel' = PanelOf(parse_command(cmd))
       ELSE /\ history' = history
            /\ parsed' = NoParse
            /\ panel' = "market"
    /\ UNCHANGED calendar
    /\ UNCHANGED assistant

\* Analyze is clicked in the sidebar: the command is recorded, not parsed
Analyze(ticker, period) ==
    /\ Len(history) < MaxHistory
    /\ history' = Append(history, "lookup " \o ticker \o " " \o period)
    /\ parsed' = NoParse
    /\ panel' = "market"
    /\ UNCHANGED <<user_cmd, calendar>>
    /\ UNCHANGED assistant

NextCmd ==
    \/ \E cmd \in Commands : Run(cmd)
    \/ \E t \in Tickers, p \in Periods : Analyze(t, p)

SpecCmd == Init /\ [][NextCmd]_vars

(***************************************************************************)
(* app.py: the add-to-calendar handler of inbox_today_list.  Datetimes     *)
(* are the integers 0..MaxTime; add and replace are the values of the two  *)
(* st.button calls of one run of the handler.                              *)
(***************************************************************************)
\* the subjects of two of the st.session_state.inbox_messages
Subjects == <<"Benefits open enrollment closes Tuesday",
              "Invite: Client update at 2:30 PM">>

Times == 0..MaxTime

\* not (end_dt <= ev["start"] or start_dt >= ev["end"])
Conflicts(start_dt, end_dt, ev) == ~(end_dt <= ev.start \/ start_dt >= ev.end)

\* the index of the event the for loop stops at, 0 if it runs to the end
ConflictIndex(cal, start_dt, end_dt) ==
    LET hits == {i \in 1..Len(cal) : Conflicts(start_dt, end_dt, cal[i])}
    IN  IF hits = {} THEN 0 ELSE CHOOSE i \in hits : \A j \in hits : i <= j

\* list.remove(x): the list without its first element equal to x
ListRemove(list, x) ==
    LET i == CHOOSE j \in 1..Len(list) :
                 list[j] = x /\ \A h \in 1..(j - 1) : list[h] # x
    IN  SubSeq(list, 1, i - 1) \o SubSeq(list, i + 1, Len(list))

\* if add: ... for message idx, with the event start and end picked
AddToCalendar(idx, start_dt, end_dt, replace) ==
    LET event == [title |-> Subjects[idx], start |-> start_dt, end |-> end_dt]
        i == ConflictIndex(calendar, start_dt, end_dt)
    IN  /\ start_dt < end_dt
        /\ Len(calendar) < MaxEvents
        /\ calendar' = IF i # 0
                       THEN IF replace
                            THEN Append(ListRemove(calendar, calendar[i]), event)
                            ELSE calendar
                       ELSE Append(calendar, event)
        /\ UNCHANGED <<user_cmd, history, parsed, panel>>
        /\ UNCHANGED assistant

NextCal ==
    \E idx \in DOMAIN Subjects, start_dt \in Times, end_dt \in Times, replace \in BOOLEAN :
        AddToCalendar(idx, start_dt, end_dt, replace)

SpecCal == Init /\ [][NextCal]_vars

(***************************************************************************)
(* Properties.                                                             *)
(***************************************************************************)
\* every perception the program has produced: stored, held by a call in
\* progress, or returned
Perceptions ==
    Range(memory)
    \cup {call[c].perception : c \in {d \in Callers : call[d].pc \in {"REASON", "ACT", "RETURN"}}}
    \cup {results[k].perception : k \in 1..Len(results)}

IntentOrder ==
    <<"create", "search", "analyze", "calculate", "schedule", "translate", "summarize">>

IntentLabels == Range(IntentOrder) \cup {"conversation"}

\* the table positions of the intents one of whose keywords is in the text
MatchingIntents(text) ==
    {i \in 1..Len(intent_patterns) :
        \E kw \in Range(intent_patterns[i].keywords) : Contains(Lower(text), kw)}

SetMin(S) == CHOOSE x \in S : \A y \in S : x <= y

\* C1: the intent of every perception is one of the eight labels; it is the
\* first intent of the order create < search < analyze < calculate <
\* schedule < translate < summarize with a keyword in the lower-cased text,
\* and "conversation" exactly when no keyword of any intent is in it.
C1_IntentFirstMatch ==
    \A p \in Perceptions :
        LET m == MatchingIntents(p.text) IN
        /\ p.intent \in IntentLabels
        /\ (p.intent = "conversation") <=> (m = {})
        /\ m # {} => p.intent = IntentOrder[SetMin(m)]

\* C1 witness: a text with keywords of two intents got the earlier one
C1_Witness ==
    \E p \in Perceptions :
        /\ Cardinality(MatchingIntents(p.text)) >= 2
        /\ p.intent = IntentOrder[SetMin(MatchingIntents(p.text))]
        /\ p.text # Lower(p.text)

\* C2: a text that is just one keyword of the table gets the intent that
\* lists the keyword.
C2_KeywordOwnIntent ==
    \A p \in Perceptions :
        \A i \in 1..Len(intent_patterns) :
            p.text \in Range(intent_patterns[i].keywords)
                => p.intent = intent_patterns[i].intent

\* every reasoning record the program has produced, with its perception
Reasoned ==
    {<<call[c].perception, call[c].reasoning>> :
        c \in {d \in Callers : call[d].pc \in {"ACT", "RETURN"}}}
    \cup {<<results[k].perception, results[k].reasoning>> : k \in 1..Len(results)}

\* the three signals of a perception
HasEntities(p) == DOMAIN p.entities # {}
HasSentiment(p) == p.sentiment # "neutral"
HasManyTokens(p) == SplitCount(p.text) > 5

\* 0.70 + 0.15 + 0.10 + 0.05 by signal, clamped, in hundredths
Hundredths(p) ==
    LET sum == 70 + (IF HasEntities(p) THEN 15 ELSE 0)
                  + (IF HasSentiment(p) THEN 10 ELSE 0)
                  + (IF HasManyTokens(p) THEN 5 ELSE 0)
    IN  IF sum > 100 THEN 100 ELSE sum

\* the double nearest to n/100, i.e. the Python literals 0.7, 0.75, ... 1.0
Nearest(n) ==
    CASE n = 70  -> <<187904819, 107374176>>   \* 0x1.6666666666666p-1
      [] n = 75  -> <<201326592, 0>>           \* 0x1.8p-1
      [] n = 80  -> <<214748364, 429496736>>   \* 0x1.999999999999ap-1
      [] n = 85  -> <<228170137, 322122544>>   \* 0x1.b333333333333p-1
      [] n = 90  -> <<241591910, 214748368>>   \* 0x1.ccccccccccccdp-1
      [] n = 95  -> <<255013683, 107374176>>   \* 0x1.e666666666666p-1
      [] n = 100 -> <<268435456, 0>>           \* 0x1p+0

\* 0.7999999999999999 = 0x1.9999999999999p-1, the double just below 0.8
JustBelow_0_8 == <<214748364, 429496720>>

\* the perceptions that differ from p by one signal switched on
SwitchedOn(p) ==
    (IF HasEntities(p) THEN {} ELSE {[p EXCEPT !.entities = [k \in {"numbers"} |-> <<"7">>]]})
    \cup (IF HasSentiment(p) THEN {}
          ELSE {[p EXCEPT !.sentiment = "positive"], [p EXCEPT !.sentiment = "negative"]})
    \cup (IF HasManyTokens(p) THEN {} ELSE {[p EXCEPT !.text = p.text \o " a b c d e f"]})

\* C3 as stated: the confidence is the decimal value 0.70 + 0.15 + 0.10 +
\* 0.05 by signal, clamped to 1.00.
C3_ConfidenceDecimal ==
    \A pr \in Reasoned :
        LET p == pr[1]
            conf == pr[2].confidence
        IN  /\ conf = Nearest(Hundredths(p))
            /\ FLeq(Nearest(70), conf) /\ FLeq(conf, Nearest(100))
            /\ \A p2 \in SwitchedOn(p) : FLeq(conf, _calculate_confidence(p2))

\* C3 amended: the confidence is the double nearest to the decimal value
\* 0.70 + 0.15 + 0.10 + 0.05 by signal, except that with non-neutral
\* sentiment alone it is 0.7999999999999999, the double just below 0.80; it
\* lies in [0.70, 1.00] and does not decrease when one signal is switched
\* on.
C3_ConfidenceDouble ==
    \A pr \in Reasoned :
        LET p == pr[1]
            conf == pr[2].confidence
        IN  /\ IF ~HasEntities(p) /\ HasSentiment(p) /\ ~HasManyTokens(p)
               THEN conf = JustBelow_0_8
               ELSE conf = Nearest(Hundredths(p))
            /\ FLeq(Nearest(70), conf) /\ FLeq(conf, Nearest(100))
            /\ \A p2 \in SwitchedOn(p) : FLeq(conf, _calculate_confidence(p2))

\* C3 witness: a reasoning record with all three signals, confidence 1.0
C3_Witness ==
    \E pr \in Reasoned :
        /\ HasEntities(pr[1]) /\ HasSentiment(pr[1]) /\ HasManyTokens(pr[1])
        /\ pr[2].confidence = Nearest(100)

HasPhrase(response) == Contains(response, ContinuityPhrase)

\* C4 as stated: a response has the continuity phrase iff the store held
\* more than one perception before the call began.
C4_PhraseIffMoreThanOnePrior ==
    \A k \in 1..Len(results) :
        HasPhrase(results[k].response_text) <=> log[k].prior > 1

\* C4 amended: a response has the continuity phrase iff the store held at
\* least one perception before the call began; on a fresh assistant the
\* first response does not have it, the second and every later one do.
C4_PhraseIffPrior ==
    \A k \in 1..Len(results) :
        /\ HasPhrase(results[k].response_text) <=> log[k].prior >= 1
        /\ HasPhrase(results[k].response_text) <=> k >= 2

\* C4 witness: three calls returned, the third with the phrase
C4_Witness ==
    /\ Len(results) = 3
    /\ log[3].prior = 2
    /\ HasPhrase(results[3].response_text)

\* C5: in a session on a fresh assistant, the response of the second call
\* contains "Based on our conversation so far," and the response of the
\* first call does not.
C5_SecondCallHasPhrase ==
    /\ Len(results) >= 1 => ~Contains(results[1].response_text, "Based on our conversation so far,")
    /\ Len(results) >= 2 => Contains(results[2].response_text, "Based on our conversation so far,")

\* C5 witness: the second call has returned, with a text other than the first
C5_Witness ==
    /\ Len(results) = 2
    /\ results[1].input_text # results[2].input_text
    /\ Contains(results[2].response_text, "Based on our conversation so far,")

\* the words of the list that occur in the lower-cased text
WordsIn(words, text) == {w \in Range(words) : Occurrences(Lower(text), w) >= 1}

\* C6 as stated: with P and N the total numbers of occurrences of the
\* positive and of the negative words in the lower-cased text, the label is
\* positive iff P > N, negative iff N > P, neutral iff P = N.
C6_OccurrenceCounts ==
    \A p \in Perceptions :
        LET P == TotalOccurrences(positive, Lower(p.text), 1)
            N == TotalOccurrences(negative, Lower(p.text), 1)
        IN  /\ (p.sentiment = "positive") <=> (P > N)
            /\ (p.sentiment = "negative") <=> (N > P)
            /\ (p.sentiment = "neutral") <=> (P = N)

\* C6 amended: with P and N the numbers of distinct positive and negative
\* words that occur at least once in the lower-cased text, the label is
\* positive iff P > N, negative iff N > P, neutral iff P = N; a word that
\* occurs twice counts once, so "good good bad" is neutral.
C6_DistinctWordCounts ==
    \A p \in Perceptions :
        LET P == Cardinality(WordsIn(positive, p.text))
            N == Cardinality(WordsIn(negative, p.text))
        IN  /\ (p.sentiment = "positive") <=> (P > N)
            /\ (p.sentiment = "negative") <=> (N > P)
            /\ (p.sentiment = "neutral") <=> (P = N)
            /\ p.text = "good good bad" => p.sentiment = "neutral"

\* C6 witness: "good good bad" perceived as neutral
C6_Witness ==
    \E p \in Perceptions : p.text = "good good bad" /\ p.sentiment = "neutral"

\* C7: a text that contains as many positive keywords as negative keywords
\* (possibly none) is labelled neutral.
C7_TieIsNeutral ==
    \A p \in Perceptions :
        Cardinality(WordsIn(positive, p.text)) = Cardinality(WordsIn(negative, p.text))
            => p.sentiment = "neutral"

\* C7 witness: a text with a negative keyword before a positive one, one of
\* each, perceived as neutral
C7_Witness ==
    \E p \in Perceptions :
        /\ WordsIn(positive, p.text) = {"good"}
        /\ WordsIn(negative, p.text) = {"bad"}
        /\ StartsWith(p.text, "bad")
        /\ p.sentiment = "neutral"

EntityKeys == {"numbers", "dates", "times", "emails"}

\* the maximal runs of digits of the text, by their first positions
DigitRunStarts(text) ==
    {i \in 1..Len(text) :
        Ch(text, i) \in Digits /\ (i = 1 \/ Ch(text, i - 1) \notin Digits)}

\* C8 as stated: a text with exactly one number, one date, one time and one
\* email address yields exactly the four categories, one match each.
C8_OneMatchEach ==
    \A p \in Perceptions :
        p.text \in RoundTripTexts =>
            /\ DOMAIN p.entities = EntityKeys
            /\ \A k \in EntityKeys : Len(p.entities[k]) = 1

\* C8 amended: such a text, its four instances set off by spaces or commas,
\* yields exactly the four categories; dates, times and emails hold one
\* match each (the date, the lower-cased time, the address), and numbers
\* holds one match per maximal run of digits of the text, those of the date
\* and of the time included: six for "Call me at 3:30pm on 4/5/2025, 42
\* times, email me at a@b.com".
C8_OneMatchButNumbers ==
    \A p \in Perceptions :
        \A t \in RoundTripTime, d \in RoundTripDate,
           n \in RoundTripNumber, e \in RoundTripEmail :
            p.text \in {RoundTripA(t, d, n, e), RoundTripB(t, d, n, e)} =>
                /\ DOMAIN p.entities = EntityKeys
                /\ p.entities["dates"] = <<d>>
                /\ Len(p.entities["times"]) = 1
                /\ StartsWith(p.entities["times"][1], Lower(t))
                /\ p.entities["emails"] = <<e>>
                /\ Len(p.entities["numbers"]) = Cardinality(DigitRunStarts(p.text))
                /\ Len(p.entities["numbers"]) > 1
                /\ n \in Range(p.entities["numbers"])
                /\ p.text = "Call me at 3:30pm on 4/5/2025, 42 times, email me at a@b.com"
                       => p.entities["numbers"] = <<"3", "30", "4", "5", "2025", "42">>

\* C8 witness: the example text perceived, with its six numbers
C8_Witness ==
    \E p \in Perceptions :
        /\ p.text = "Call me at 3:30pm on 4/5/2025, 42 times, email me at a@b.com"
        /\ Len(p.entities["numbers"]) = 6
        /\ p.entities["times"] = <<"3:30pm">>

\* C9: the entities of every perception have keys among numbers, dates,
\* times, emails, each mapped to a non-empty list; numbers is present
\* exactly when the text has a digit, and a text with neither a digit nor
\* an "@" has the empty mapping.
C9_EntitiesNonEmpty ==
    \A p \in Perceptions :
        /\ DOMAIN p.entities \subseteq EntityKeys
        /\ \A k \in DOMAIN p.entities : p.entities[k] # <<>>
        /\ ("numbers" \in DOMAIN p.entities) <=> (DigitRunStarts(p.text) # {})
        /\ (DigitRunStarts(p.text) = {} /\ ~Contains(p.text, "@")) => DOMAIN p.entities = {}

\* C9 witness: a perception with some category present and another omitted
C9_Witness ==
    \E p \in Perceptions :
        /\ "numbers" \in DOMAIN p.entities
        /\ "emails" \notin DOMAIN p.entities
        /\ p \in Range(memory)

\* the goal phrases in lower case
GoalLower(intent) ==
    CASE intent = "create"    -> "generate new content"
      [] intent = "search"    -> "retrieve information"
      [] intent = "analyze"   -> "understand and explain"
      [] intent = "calculate" -> "perform computation"
      [] intent = "schedule"  -> "organize time-based tasks"
      [] intent = "translate" -> "convert between languages"
      [] intent = "summarize" -> "condense information"
      [] OTHER                -> "assist user"

\* C10: a response starts with "I understand you want to " when the
\* confidence is above 0.8 and with "I think you're asking me to "
\* otherwise, as it does with non-neutral sentiment alone; the goal in
\* lower case and ". " follow.
C10_ResponsePrefix ==
    \A k \in 1..Len(results) :
        LET p == results[k].perception
            r == results[k].reasoning
            response == results[k].response_text
            tail == GoalLower(p.intent) \o ". "
        IN  /\ Lower(r.goal) = GoalLower(p.intent)
            /\ IF FLess(Nearest(80), r.confidence)
               THEN StartsWith(response, "I understand you want to " \o tail)
               ELSE StartsWith(response, "I think you're asking me to " \o tail)
            /\ (~HasEntities(p) /\ HasSentiment(p) /\ ~HasManyTokens(p))
                   => StartsWith(response, "I think you're asking me to ")

\* C10 witness: a response to a text with non-neutral sentiment alone
C10_Witness ==
    \E k \in 1..Len(results) :
        LET p == results[k].perception IN
        /\ ~HasEntities(p) /\ HasSentiment(p) /\ ~HasManyTokens(p)
        /\ p.intent # "conversation"
        /\ StartsWith(results[k].response_text, "I think you're asking me to ")

ReportText == "Can you create a report and email me at x@y.com by 5:00pm?"

\* C11: process of the report request yields intent create, emails
\* ["x@y.com"], times ["5:00pm"], neutral sentiment, confidence 0.90 and a
\* response beginning "I understand you want to generate new content. ";
\* process("hi") yields conversation, no entities, neutral sentiment,
\* confidence 0.70 and a response beginning "I think you're asking me to
\* assist user. ".
C11_EndToEnd ==
    \A k \in 1..Len(results) :
        LET b == results[k] IN
        /\ b.input_text = ReportText =>
              /\ b.perception.intent = "create"
              /\ {"emails", "times"} \subseteq DOMAIN b.perception.entities
              /\ b.perception.entities["emails"] = <<"x@y.com">>
              /\ b.perception.entities["times"] = <<"5:00pm">>
              /\ b.perception.sentiment = "neutral"
              /\ b.reasoning.confidence = Nearest(90)
              /\ StartsWith(b.response_text, "I understand you want to generate new content. ")
        /\ b.input_text = "hi" =>
              /\ b.perception.intent = "conversation"
              /\ DOMAIN b.perception.entities = {}
              /\ b.perception.sentiment = "neutral"
              /\ b.reasoning.confidence = Nearest(70)
              /\ StartsWith(b.response_text, "I think you're asking me to assist user. ")

\* C11 witness: both texts processed, the report request on the fresh
\* assistant
C11_Witness ==
    /\ Len(results) = 2
    /\ results[1].input_text = ReportText
    /\ results[1].reasoning.confidence = Nearest(90)
    /\ results[2].input_text = "hi"
    /\ results[2].reasoning.confidence = Nearest(70)

\* C12: by intent, the goal is the intent's phrase and "Assist user" for
\* conversation only; the prerequisites are the intent's list for search,
\* calculate, translate and schedule and ["language understanding"]
\* otherwise; the plan is bespoke for create, analyze and calculate and the
\* default steps with "3s" for the five other labels.
C12_ReasonTables ==
    \A pr \in Reasoned :
        LET intent == pr[1].intent
            r == pr[2]
        IN  /\ Lower(r.goal) = GoalLower(intent)
            /\ (r.goal = "Assist user") <=> (intent = "conversation")
            /\ r.prerequisites =
                  (CASE intent = "search"    -> <<"internet access", "search tool">>
                     [] intent = "calculate" -> <<"math processor">>
                     [] intent = "translate" -> <<"translation model">>
                     [] intent = "schedule"  -> <<"calendar access">>
                     [] OTHER                -> <<"language understanding">>)
            /\ intent \in {"search", "schedule", "translate", "summarize", "conversation"} =>
                  /\ r.plan.steps = <<"understand_query", "process_information", "formulate_response">>
                  /\ r.plan.estimated_time = "3s"
            /\ intent \in {"create", "analyze", "calculate"} =>
                  /\ r.plan.steps # <<"understand_query", "process_information", "formulate_response">>
                  /\ r.plan.estimated_time =
                        (CASE intent = "create" -> "10s" [] intent = "analyze" -> "5s" [] OTHER -> "2s")

\* C12 witness: a schedule request reasoned with its own prerequisites and
\* the default plan
C12_Witness ==
    \E pr \in Reasoned :
        /\ pr[1].intent = "schedule"
        /\ pr[2].prerequisites = <<"calendar access">>
        /\ pr[2].plan.estimated_time = "3s"

EndsWith(s, p) == Len(p) <= Len(s) /\ SubSeq(s, Len(s) - Len(p) + 1, Len(s)) = p

\* the step results of every act that has run, with the reasoning acted on
\* and the response
Acted ==
    {<<call[c].reasoning, call[c].step_results, call[c].response_text>> :
        c \in {d \in Callers : call[d].pc = "RETURN"}}
    \cup {<<results[k].reasoning, log[k].step_results, results[k].response_text>> :
             k \in 1..Len(results)}

\* C13: act produces one result per step of the plan, in plan order, each
\* with status "completed" and output "Executed <step_name>"; the response
\* reports "completed N reasoning steps" with N the number of steps of the
\* plan, which is 3 for every text.
C13_OneResultPerStep ==
    \A a \in Acted :
        LET steps == a[1].plan.steps
            step_results == a[2]
        IN  /\ Len(step_results) = Len(steps)
            /\ \A i \in 1..Len(steps) :
                  /\ step_results[i].step = steps[i]
                  /\ step_results[i].status = "completed"
                  /\ step_results[i].output = "Executed " \o steps[i]
            /\ EndsWith(a[3], "completed " \o ToString(Len(steps)) \o " reasoning steps.")
            /\ Len(steps) = 3
            /\ EndsWith(a[3], "I've analyzed your request and completed 3 reasoning steps.")

\* C13 witness: a bespoke plan acted on, its last step executed last
C13_Witness ==
    \E a \in Acted :
        /\ a[1].plan.steps = <<"parse_input", "analyze_components", "synthesize_explanation">>
        /\ a[2][3].output = "Executed synthesize_explanation"
        /\ EndsWith(a[3], "completed 3 reasoning steps.")

BundleKeys == {"input_text", "perception", "reasoning", "response_text"}

StageOrder == <<"idle", "PERCEIVE", "REASON", "ACT", "RETURN">>

\* the position after pc in the cycle idle, PERCEIVE, REASON, ACT, RETURN, idle
NextStage(pc) ==
    LET i == CHOOSE j \in 1..Len(StageOrder) : StageOrder[j] = pc
    IN  StageOrder[(i % Len(StageOrder)) + 1]

\* every returned bundle has the four keys, carries the text given, a
\* perception of that text and the reasoning of that perception, and its
\* call ran the three stages once each, in order
BundlesWellFormed ==
    \A k \in 1..Len(results) :
        /\ DOMAIN results[k] = BundleKeys
        /\ results[k].perception.text = results[k].input_text
        /\ results[k].perception \in Range(memory)
        /\ results[k].reasoning = reason(results[k].perception)
        /\ log[k].stages = <<"PERCEIVE", "REASON", "ACT">>

\* a step moves at most one call, to the next stage, and a call keeps the
\* text it was given until it returns
StagesInOrder ==
    \A c \in Callers :
        /\ call[c].pc \in Range(StageOrder)
        /\ call'[c].pc # call[c].pc =>
              /\ call'[c].pc = NextStage(call[c].pc)
              /\ call[c].pc # "idle" /\ call'[c].pc # "idle" => call'[c].text = call[c].text
              /\ \A d \in Callers \ {c} : call'[d] = call[d]

\* C14: every process call runs PERCEIVE, REASON, ACT once each in that
\* order, without branching, retry or error, and terminates returning a
\* bundle with exactly the keys input_text, perception, reasoning,
\* response_text, for the text given and with the reasoning of its own
\* perception.
C14_PipelineRuns ==
    /\ []BundlesWellFormed
    /\ [][StagesInOrder]_vars
    /\ \A n \in 0..MaxCalls :
          (call[1].pc = "PERCEIVE" /\ Len(results) = n) ~> (Len(results) = n + 1)

\* C14 witness: a session of three returned calls, the last one for a text
\* other than the first
C14_Witness ==
    /\ Len(results) = 3
    /\ results[3].input_text # results[1].input_text
    /\ results[3].reasoning # results[1].reasoning
    /\ log[3].stages = <<"PERCEIVE", "REASON", "ACT">>
    /\ call[1].pc = "idle"

\* the store changes in a PERCEIVE step and in no other: that step appends
\* the one perception of the call, of the call's text, and every other step
\* (the call itself, REASON, ACT, the return) leaves the store as it is
StoreWrittenByPerceive ==
    LET perceiving == {c \in Callers : call[c].pc = "PERCEIVE" /\ call'[c].pc = "REASON"}
    IN  /\ perceiving = {} => memory' = memory
        /\ \A c \in perceiving :
              /\ memory' = Append(memory, call'[c].perception)
              /\ call'[c].perception.text = call[c].text
              /\ SubSeq(memory', 1, Len(memory)) = memory
        /\ \A c \in Callers :
              call[c].pc \in {"REASON", "ACT"} /\ call'[c].pc # call[c].pc => memory' = memory

\* between calls the store holds the perceptions of the calls made, in call
\* order, and interaction_count is its length
StoreIsHistory ==
    (\A c \in Callers : call[c].pc = "idle") =>
        /\ Len(memory) = Len(results)
        /\ interaction_count = Len(memory)
        /\ \A k \in 1..Len(results) : memory[k] = results[k].perception

\* C15: the Interaction Store is append-only and written by PERCEIVE alone:
\* perceive appends exactly one perception and keeps the earlier entries,
\* reason and act leave the store unchanged, and after k calls on a fresh
\* assistant the store holds the k perceptions of those calls in call order
\* with interaction_count = k.
C15_StoreAppendOnly ==
    /\ []StoreIsHistory
    /\ [][StoreWrittenByPerceive]_vars

\* C15 witness: three calls made, the store holding three perceptions of
\* which the first and the last differ
C15_Witness ==
    /\ call[1].pc = "idle"
    /\ interaction_count = 3
    /\ Len(memory) = 3
    /\ memory[1].text # memory[3].text
    /\ memory[3] = results[3].perception

\* the fields of a perception that perceive computes from the text
Analysis(p) == [intent |-> p.intent, entities |-> p.entities, sentiment |-> p.sentiment]

C17_LookupAccepted ==
    parsed # NoParse =>
        /\ \A t \in Tickers, p \in Periods :
              user_cmd = "lookup " \o t \o " " \o p =>
                  parsed = [type |-> "stock_lookup", ticker |-> ToUpper(t), period |-> p]
        /\ \A t \in Tickers :
              user_cmd = "lookup " \o t =>
                  parsed = [type |-> "stock_lookup", ticker |-> ToUpper(t), period |-> "3mo"]

\* the two calls made so far have both returned
TwoCallsReturned == Len(memory) = 2 /\ Len(results) = 2

\* results[i] then results[j] is a serial order of the two calls: each
\* response is the one act gives on the store that order leaves
SerialOrder(i, j) ==
    /\ results[i].response_text = act(results[i].reasoning, <<results[i].perception>>)
    /\ results[j].response_text =
           act(results[j].reasoning, <<results[i].perception, results[j].perception>>)

\* C18 as stated: two interleaved calls on a fresh assistant behave as
\* some serial order of the two, so exactly one of the two responses has
\* the continuity phrase.
C18_Serializable ==
    TwoCallsReturned =>
        /\ SerialOrder(1, 2) \/ SerialOrder(2, 1)
        /\ HasPhrase(results[1].response_text) # HasPhrase(results[2].response_text)

\* the ACT step of a call gives the phrase iff the store holds more than
\* one perception at that step
PhraseByStoreAtAct ==
    \A c \in Callers :
        call[c].pc = "ACT" /\ call'[c].pc = "RETURN" =>
            /\ HasPhrase(call'[c].response_text) <=> Len(memory) > 1
            /\ call'[c].response_text = act(call[c].reasoning, memory)

\* C18 amended: a response has the continuity phrase iff the store held
\* more than one perception when the call's ACT ran; of two interleaved
\* calls on a fresh assistant at least one response has the phrase, and
\* both have it when both PERCEIVE stages ran before either ACT.
C18_PhraseByStoreAtAct ==
    /\ [][PhraseByStoreAtAct]_vars
    /\ [](TwoCallsReturned =>
             HasPhrase(results[1].response_text) \/ HasPhrase(results[2].response_text))
    /\ [](\A c \in Callers :
             (Len(memory) = 2 /\ \A d \in Callers : call[d].pc \in {"REASON", "ACT"})
                 => HasPhrase(act(reason(call[c].perception), memory)))

\* C18 witness: both calls perceived before either acted, and both
\* responses returned with the phrase
C18_Witness ==
    /\ TwoCallsReturned
    /\ log[1].prior = 0
    /\ log[2].prior = 0
    /\ HasPhrase(results[1].response_text)
    /\ HasPhrase(results[2].response_text)

\* e1.start < e2.end and e2.start < e1.end
Overlap(e1, e2) == e1.start < e2.end /\ e2.start < e1.end

\* C19: the session calendar never holds two overlapping events, whatever
\* the sequence of runs of the add-to-calendar handler, its replace branch
\* included.
C19_NoOverlappingEvents ==
    \A i, j \in 1..Len(calendar) : i # j => ~Overlap(calendar[i], calendar[j])

====
